---------------------------- MODULE Spec2Model ----------------------------
(***************************************************************************)
(* Back-in-stock subscription bridge: the subscribe routes (origin-mapped  *)
(* and app-proxy), the stock-restored route, the list route and the admin  *)
(* index loader, as request handlers that run concurrently against the     *)
(* provider's per-variant metafield backinstock.notify_companies.          *)
(*                                                                         *)
(* Strings are sequences of segments (<<"c1">>, <<"gid://...", "v1">>),    *)
(* JSON text is a sequence of tokens, JS values are tagged records.        *)
(***************************************************************************)
EXTENDS Integers, Sequences, FiniteSets, TLC

VARIABLES store, env, req, track, started

vars == <<store, env, req, track, started>>

-----------------------------------------------------------------------------
(* Bounds of the model *)

\* total number of requests the environment sends
MaxRequests == 3
\* number of requests sent when inputs and configuration are unrestricted
GateRequests == 1
\* requests sent in SpecFrame
FrameRequests == 2
\* safetyCounter < 50 of the admin index loader
SafetyLimit == 50

\* longest subscriber list whose entries are looked up
MaxListLen == 3

\* request slots: how many handlers can be in flight at once
Req == {"r1", "r2"}

Variants == {"v1", "v2"}
Companies == {<<"c1">>, <<"c2">>}

-----------------------------------------------------------------------------
(* Strings and identifiers *)

EmptyStr == <<>>
VariantPrefix == "gid://shopify/ProductVariant/"
CompanyPrefix == "gid://shopify/Company/"
ShopPrefix == "gid://shopify/Shop/"
GidPrefixes == {VariantPrefix, CompanyPrefix, ShopPrefix}

\* id.startsWith("gid://")
StartsWithGid(id) == Len(id) > 0 /\ id[1] \in GidPrefixes

\* toVariantGid of the app-proxy route
ToVariantGid(id) == IF StartsWithGid(id) THEN id ELSE <<VariantPrefix>> \o id

\* as OriginVariantGid, for one variant whatever the request names
OriginVariantGidFixed(variantIdRaw) == <<VariantPrefix, "v1">>
\* `gid://shopify/ProductVariant/${variantIdRaw}` of the origin-mapped route
OriginVariantGid(variantIdRaw) == <<VariantPrefix>> \o variantIdRaw

\* `gid://shopify/Company/${companyId}` of the stock-restored lookup
CompanyGid(companyId) == <<CompanyPrefix>> \o companyId

NoVariant == "none"
\* the provider resolves only a well-formed variant GID of an existing variant
ResolveVariant(id) ==
    IF Len(id) = 2 /\ id[1] = VariantPrefix /\ id[2] \in Variants
    THEN id[2] ELSE NoVariant

-----------------------------------------------------------------------------
(* JS values and JSON text *)

JsString(s) == [t |-> "string", v |-> s]
JsNumber(s) == [t |-> "number", v |-> s]
JsNull == [t |-> "null", v |-> EmptyStr]

Tok(k, v) == [k |-> k, v |-> v]
LBracket == Tok("[", EmptyStr)
RBracket == Tok("]", EmptyStr)
LBrace == Tok("{", EmptyStr)
RBrace == Tok("}", EmptyStr)
Comma == Tok(",", EmptyStr)
LiteralKinds == {"string", "number", "null"}
IsLiteral(tok) == tok.k \in LiteralKinds

RECURSIVE StringifyItems(_)
StringifyItems(arr) ==
    IF arr = <<>> THEN <<>>
    ELSE IF Len(arr) = 1 THEN <<Tok(arr[1].t, arr[1].v)>>
    ELSE <<Tok(arr[1].t, arr[1].v), Comma>> \o StringifyItems(Tail(arr))

\* JSON.stringify of an array of scalars
JSONStringify(arr) == <<LBracket>> \o StringifyItems(arr) \o <<RBracket>>

ParseFail == [ok |-> FALSE, isArray |-> FALSE, arr |-> <<>>]
ParseScalar == [ok |-> TRUE, isArray |-> FALSE, arr |-> <<>>]

RECURSIVE ParseItems(_)
\* the items between the brackets: literal (, literal)*
ParseItems(toks) ==
    IF toks = <<>> THEN [ok |-> TRUE, arr |-> <<>>]
    ELSE IF ~IsLiteral(toks[1]) THEN [ok |-> FALSE, arr |-> <<>>]
    ELSE IF Len(toks) = 1
         THEN [ok |-> TRUE, arr |-> <<[t |-> toks[1].k, v |-> toks[1].v]>>]
    ELSE IF toks[2] # Comma \/ Len(toks) < 3 THEN [ok |-> FALSE, arr |-> <<>>]
    ELSE LET rest == ParseItems(SubSeq(toks, 3, Len(toks)))
         IN  IF rest.ok
             THEN [ok |-> TRUE,
                   arr |-> <<[t |-> toks[1].k, v |-> toks[1].v]>> \o rest.arr]
             ELSE [ok |-> FALSE, arr |-> <<>>]

\* JSON.parse: ok = FALSE when it throws
JSONParse(text) ==
    IF text = <<>> THEN ParseFail
    ELSE IF Len(text) = 1
         THEN IF IsLiteral(text[1]) THEN ParseScalar ELSE ParseFail
    ELSE IF text = <<LBrace, RBrace>> THEN ParseScalar
    ELSE IF text[1] = LBracket /\ text[Len(text)] = RBracket
         THEN LET items == ParseItems(SubSeq(text, 2, Len(text) - 1))
              IN  IF items.ok
                  THEN [ok |-> TRUE, isArray |-> TRUE, arr |-> items.arr]
                  ELSE ParseFail
    ELSE ParseFail

RECURSIVE FilterStrings(_)
\* parsed.filter((c) => typeof c === "string")
FilterStrings(arr) ==
    IF arr = <<>> THEN <<>>
    ELSE IF arr[1].t = "string" THEN <<arr[1]>> \o FilterStrings(Tail(arr))
    ELSE FilterStrings(Tail(arr))

\* a metafield value as the provider returns it: null, or a string
NullValue == [present |-> FALSE, text |-> <<>>]
StringValue(text) == [present |-> TRUE, text |-> text]

\* JS truthiness of metafield?.value
Truthy(value) == value.present /\ value.text # <<>>

\* as ParseCompanies, without the fallback for a value that is no array
ParseCompaniesNoFallback(value) ==
    IF ~Truthy(value) THEN <<>>
    ELSE LET parsed == JSONParse(value.text)
         IN  IF parsed.isArray THEN FilterStrings(parsed.arr)
             ELSE <<JsNull>>

\* the subscriber list of the origin-mapped subscribe and of stock-restored:
\* empty unless the value is truthy, parses and is an array; strings only
ParseCompanies(value) ==
    IF ~Truthy(value) THEN <<>>
    ELSE LET parsed == JSONParse(value.text)
         IN  IF parsed.ok /\ parsed.isArray THEN FilterStrings(parsed.arr)
             ELSE <<>>

\* the subscriber list of the app-proxy subscribe: no element filter; a
\* JSON.parse that throws lands in the catch, which also yields []
ParseCompaniesProxy(value) ==
    IF ~Truthy(value) THEN <<>>
    ELSE LET parsed == JSONParse(value.text)
         IN  IF parsed.ok /\ parsed.isArray THEN parsed.arr ELSE <<>>

Includes(arr, x) == \E i \in 1..Len(arr) : arr[i] = x

\* as PushIfAbsent, without the includes test
PushAlways(arr, companyId) == Append(arr, JsString(companyId))
\* if (!companies.includes(companyId)) companies.push(companyId)
PushIfAbsent(arr, companyId) ==
    IF Includes(arr, JsString(companyId)) THEN arr
    ELSE Append(arr, JsString(companyId))


-----------------------------------------------------------------------------
(* The provider (Admin GraphQL) and its replies *)

\* one HTTP exchange with the provider: did fetch resolve, is the body JSON,
\* is the status 2xx, does the body carry top-level errors (and then no
\* data), does metafieldsSet answer with userErrors
Reply(sent, isJson, httpOk, errors, userErrors) ==
    [sent |-> sent, isJson |-> isJson, httpOk |-> httpOk, errors |-> errors,
     userErrors |-> userErrors]
ReplyTransport == Reply(FALSE, FALSE, FALSE, FALSE, FALSE)
ReplyNonJson == Reply(TRUE, FALSE, TRUE, FALSE, FALSE)
ReplyHttpError == Reply(TRUE, TRUE, FALSE, FALSE, FALSE)
ReplyErrors == Reply(TRUE, TRUE, TRUE, TRUE, FALSE)
ReplyUserErrors == Reply(TRUE, TRUE, TRUE, FALSE, TRUE)
ReplyData == Reply(TRUE, TRUE, TRUE, FALSE, FALSE)

QueryReplies ==
    {ReplyTransport, ReplyNonJson, ReplyHttpError, ReplyErrors, ReplyData}
MutationReplies == QueryReplies \cup {ReplyUserErrors}

\* adminGraphql throws on a failed fetch, a non-JSON body or a non-2xx
\* status; top-level errors are logged and the body is returned
AdminGraphqlThrows(reply) == ~reply.sent \/ ~reply.isJson \/ ~reply.httpOk

\* the provider applies a metafieldsSet only when it answers with data and
\* no userErrors, and only to a variant it can resolve
CanReply(reply, ownerId) ==
    reply = ReplyData => ResolveVariant(ownerId) # NoVariant
Applies(reply, ownerId) ==
    reply = ReplyData /\ ResolveVariant(ownerId) # NoVariant

\* readJson?.data?.productVariant?.metafield?.value
MetafieldValue(reply, ownerId) ==
    IF reply.errors \/ ResolveVariant(ownerId) = NoVariant THEN NullValue
    ELSE store[ResolveVariant(ownerId)]

-----------------------------------------------------------------------------
(* Process configuration *)

NoSecret == EmptyStr
FlowSecret == <<"s3cret">>
WrongSecret == <<"guess">>

MappedOrigin == "https://bloomconnect.co.nz"
UnmappedOrigin == "https://example.org"
NoOrigin == "null"
Origins == {MappedOrigin, UnmappedOrigin, NoOrigin}
\* the keys of ORIGIN_TO_ENV
ORIGIN_TO_ENV == {MappedOrigin}

\* as GetShopConfigFromOriginThrows, without the check of the env vars
GetShopConfigFromOriginThrowsUnchecked(origin) ==
    \/ origin = NoOrigin
    \/ origin \notin ORIGIN_TO_ENV
\* getShopConfigFromOrigin throws without an Origin, for an unmapped
\* Origin, and when the shop's env vars are not set
GetShopConfigFromOriginThrows(origin) ==
    \/ origin = NoOrigin
    \/ origin \notin ORIGIN_TO_ENV
    \/ ~env.shopVars

-----------------------------------------------------------------------------
(* Requests and responses *)

NoResp == [status |-> 0, ok |-> "none", skipped |-> FALSE, sent |-> -1,
           msg |-> "none"]
ErrorResp(status, msg) ==
    [status |-> status, ok |-> "false", skipped |-> FALSE, sent |-> -1,
     msg |-> msg]
\* json(rows, { status }): the body is an array, kept in the request's rows
ArrayResp(status) ==
    [status |-> status, ok |-> "none", skipped |-> FALSE, sent |-> -1,
     msg |-> "none"]
\* a body that is not JSON (or no body at all)
PlainResp(status, msg) ==
    [status |-> status, ok |-> "none", skipped |-> FALSE, sent |-> -1,
     msg |-> msg]
OkResp == [status |-> 200, ok |-> "true", skipped |-> FALSE, sent |-> -1,
           msg |-> "none"]
SkippedResp(reason) ==
    [status |-> 200, ok |-> "true", skipped |-> TRUE, sent |-> -1,
     msg |-> reason]
SentResp(n) ==
    [status |-> 200, ok |-> "true", skipped |-> FALSE, sent |-> n,
     msg |-> "none"]

NoPayload == [product_id |-> 0, subscribers |-> <<>>]
\* variantNode.product?.id, before the handler reads it
NoProductGid == <<"unread">>
\* no metafield value read (yet)
UnreadValue == [present |-> FALSE, text |-> <<Tok("unread", EmptyStr)>>]

\* what a request carried, as far as the handler read it
Unread == <<"unread">>
NotANumber == [t |-> "string", n |-> 0]
Num(n) == [t |-> "number", n |-> n]
NoInput == [method |-> "none", secret |-> Unread, origin |-> "none",
            auth |-> "none", bodyIsJson |-> FALSE,
            shopId |-> Unread, variantId |-> Unread, companyId |-> Unread,
            productId |-> Unread,
            inventoryQuantity |-> NotANumber,
            previousInventoryQuantity |-> NotANumber]

IdleReq ==
    [kind |-> "idle", route |-> "none", pc |-> "idle", ownerId |-> EmptyStr,
     companyId |-> EmptyStr, companies |-> <<>>, got |-> <<>>,
     recipients |-> <<>>, productGid |-> NoProductGid, payload |-> NoPayload,
     loads |-> 0, lookups |-> 0,
     dispatches |-> 0, writes |-> 0, dispatched |-> "none",
     written |-> "none", mfValue |-> UnreadValue, snap |-> NullValue,
     prior |-> UnreadValue, retryOf |-> NoPayload, foreign |-> FALSE,
     safetyCounter |-> 0, hasNextPage |-> FALSE, allProductEdges |-> 0,
     rows |-> <<>>,
     threw |-> "none",
     input |-> NoInput, resp |-> NoResp]

Active(q) == req[q].pc \notin {"idle", "done"}
Target(q) == ResolveVariant(req[q].ownerId)
\* a new request takes the first slot that is not in flight
Free(r) ==
    /\ req[r].pc \in {"idle", "done"}
    /\ started < MaxRequests
    /\ (r = "r2" => req["r1"].pc \notin {"idle", "done"})

\* the handler returns: its locals are gone, the response and the record of
\* what it did remain
Done(rec, resp) ==
    [rec EXCEPT !.pc = "done", !.resp = resp, !.companies = <<>>,
                !.got = <<>>, !.recipients = <<>>,
                !.mfValue = IF resp.skipped THEN @ ELSE UnreadValue]
\* a subscribe answers 200; for the record, the value it had read stays
\* with a request whose write the provider applied
Subscribed(rec) ==
    Done([rec EXCEPT !.prior = IF rec.written = "applied" THEN rec.mfValue
                               ELSE UnreadValue], OkResp)

\* how a metafieldsSet call ended for the caller
WriteResult(reply) ==
    IF ~reply.sent \/ ~reply.isJson \/ ~reply.httpOk THEN "threw"
    ELSE IF reply.userErrors THEN "userErrors"
    ELSE IF reply.errors THEN "errors"
    ELSE "applied"

\* a request that another request's applied write to its variant overtakes
MarkForeign(rec, v) ==
    IF rec.pc # "idle" /\ ResolveVariant(rec.ownerId) = v
    THEN [rec EXCEPT !.foreign = TRUE, !.snap = NullValue]
    ELSE rec

\* r becomes rec; when the provider applied r's write to v, every other
\* request in flight on v is marked
Others(r, rec, wrote, v) ==
    [q \in Req |-> IF q = r THEN rec
                   ELSE IF wrote THEN MarkForeign(req[q], v) ELSE req[q]]

NoTrack == [seqOK |-> FALSE, asked |-> {}, applied |-> {}, calls |-> 0,
            oks |-> 0, n |-> 0, blind |-> FALSE, initial |-> NullValue]
\* the history of v at the start
NewTrack(v) == [seqOK |-> TRUE, asked |-> {}, applied |-> {}, calls |-> 0,
                oks |-> 0, n |-> 0, blind |-> FALSE, initial |-> store[v]]
\* a subscribe call for company c on v begins
TrackSubscribe(r, v, c) ==
    IF v = NoVariant THEN track
    ELSE LET ok == /\ track[v].seqOK
                   /\ \A q \in Req \ {r} : ~(Active(q) /\ Target(q) = v)
         IN  [track EXCEPT ![v] =
                 IF ok THEN [@ EXCEPT !.asked = @ \cup {c}, !.calls = @ + 1]
                 ELSE NoTrack]
\* a subscribe call for c on v returns: did the provider apply its write,
\* was its read blind (failed, or answered without data), did it answer 200
TrackWrite(v, c, wrote, blind, ok) ==
    IF v = NoVariant \/ ~track[v].seqOK THEN track
    ELSE [track EXCEPT ![v].applied = IF wrote THEN @ \cup {c} ELSE @,
                       ![v].n = IF wrote THEN @ + 1 ELSE @,
                       ![v].blind = @ \/ (wrote /\ blind),
                       ![v].oks = IF ok THEN @ + 1 ELSE @]
\* any other request on v begins
TrackOther(v) ==
    IF v = NoVariant THEN track ELSE [track EXCEPT ![v] = NoTrack]

-----------------------------------------------------------------------------
(* Initial state *)

InitValues ==
    { NullValue,
      StringValue(<<>>),
      StringValue(<<LBracket, Tok("string", <<"c1">>)>>),
      StringValue(<<LBrace, RBrace>>),
      StringValue(JSONStringify(<<>>)),
      StringValue(JSONStringify(<<JsString(<<"c1">>)>>)),
      StringValue(JSONStringify(<<JsString(<<"c1">>), JsString(<<"c2">>)>>)),
      StringValue(JSONStringify(<<JsNumber(<<"7">>), JsString(<<"c2">>)>>)),
      StringValue(JSONStringify(<<JsString(<<"c1">>), JsString(<<"c1">>)>>)) }

ListValue(arr) == StringValue(JSONStringify(arr))

\* any configuration; GateRequests requests are left to send
InitGate ==
    /\ store \in {[v \in Variants |-> IF v = "v1" THEN x
                                      ELSE ListValue(<<JsString(<<"c2">>)>>)] :
                   x \in {NullValue, ListValue(<<JsString(<<"c1">>)>>)}}
    /\ env \in [flowSecret : {NoSecret, FlowSecret}, shopVars : BOOLEAN]
    /\ req = [r \in Req |-> IdleReq]
    /\ track = [v \in Variants |-> NewTrack(v)]
    /\ started = MaxRequests - GateRequests

\* the concurrent system starts configured, with well-formed lists
Init ==
    /\ store \in {[v \in Variants |-> IF v = "v1" THEN x
                                      ELSE ListValue(<<JsString(<<"c2">>)>>)] :
                   x \in {NullValue, ListValue(<<JsString(<<"c1">>)>>),
                          ListValue(<<JsString(<<"c1">>),
                                      JsString(<<"c2">>)>>)}}
    /\ env = [flowSecret |-> FlowSecret, shopVars |-> TRUE]
    /\ req = [r \in Req |-> IdleReq]
    /\ track = [v \in Variants |-> NewTrack(v)]
    /\ started = 0

\* any stored value for the first variant
InitSeq ==
    /\ store \in {[v \in Variants |-> IF v = "v1" THEN x
                                      ELSE ListValue(<<JsString(<<"c2">>)>>)] :
                   x \in InitValues}
    /\ env = [flowSecret |-> FlowSecret, shopVars |-> TRUE]
    /\ req = [r \in Req |-> IdleReq]
    /\ track = [v \in Variants |-> NewTrack(v)]
    /\ started = 0

-----------------------------------------------------------------------------
(* POST /subscribe, origin-mapped route *)

Methods == {"POST", "GET", "OPTIONS"}
\* variant_id as the storefront sends it: empty, bare, or already a GID
VariantInputs ==
    {EmptyStr, <<"v1">>, <<"v2">>, <<VariantPrefix, "v1">>}
CompanyInputs == {EmptyStr} \cup Companies

\* the handler up to its first provider call
SubscribeOriginStart(r, method, origin, variantIdRaw, companyId) ==
    /\ Free(r)
    /\ started' = started + 1
    /\ LET in == [NoInput EXCEPT !.method = method, !.origin = origin,
                                 !.variantId = variantIdRaw,
                                 !.companyId = companyId]
           rec == [IdleReq EXCEPT !.kind = "subscribe", !.route = "origin",
                                  !.input = in]
           variantGid == OriginVariantGid(variantIdRaw)
           proceeds == /\ method = "POST"
                       /\ variantIdRaw # EmptyStr /\ companyId # EmptyStr
                       /\ ~GetShopConfigFromOriginThrows(origin)
       IN  /\ req' = [req EXCEPT ![r] =
                IF method = "OPTIONS" THEN Done(rec, PlainResp(204, "none"))
                ELSE IF method # "POST"
                     THEN Done(rec, ErrorResp(405, "Method not allowed"))
                ELSE IF variantIdRaw = EmptyStr \/ companyId = EmptyStr
                     THEN Done(rec, ErrorResp(400,
                                    "Missing variant_id or company_id"))
                ELSE IF GetShopConfigFromOriginThrows(origin)
                     THEN Done(rec, ErrorResp(500,
                              "Server misconfigured or origin not allowed"))
                ELSE [rec EXCEPT !.pc = "read", !.ownerId = variantGid,
                                 !.companyId = companyId,
                                 !.snap = MetafieldValue(ReplyData,
                                                         variantGid)]]
           /\ track' = IF proceeds
                       THEN TrackSubscribe(r, ResolveVariant(variantGid),
                                           companyId)
                       ELSE track
    /\ UNCHANGED <<store, env>>

\* the read query returns (or throws) and the list to write is built
SubscribeOriginRead(r, reply) ==
    /\ req[r].kind = "subscribe" /\ req[r].route = "origin"
    /\ req[r].pc = "read"
    /\ reply \in QueryReplies
    /\ LET rec == [req[r] EXCEPT !.loads = @ + 1]
           mfValue == MetafieldValue(reply, rec.ownerId)
           companies == PushIfAbsent(ParseCompanies(mfValue), rec.companyId)
       IN  req' = [req EXCEPT ![r] =
              IF AdminGraphqlThrows(reply)
              THEN Done(rec, ErrorResp(500, "Internal error"))
              ELSE [rec EXCEPT !.pc = "write",
                               !.mfValue = IF reply.errors THEN UnreadValue
                                           ELSE mfValue,
                               !.companies = companies]]
    /\ UNCHANGED <<store, env, track, started>>

\* as NewValue, built from the list stored when the write is sent
NewValueFromStore(rec) ==
    JSONStringify(PushIfAbsent(
        ParseCompanies(store[ResolveVariant(rec.ownerId)]), rec.companyId))
\* newValue = JSON.stringify(companies), of the list read earlier
NewValue(rec) == JSONStringify(rec.companies)

\* the metafieldsSet mutation returns (or throws)
SubscribeOriginWrite(r, reply) ==
    /\ req[r].kind = "subscribe" /\ req[r].route = "origin"
    /\ req[r].pc = "write"
    /\ reply \in MutationReplies
    /\ CanReply(reply, req[r].ownerId)
    /\ LET rec == [req[r] EXCEPT !.writes = @ + 1,
                                  !.written = WriteResult(reply)]
           wrote == Applies(reply, rec.ownerId)
           v == ResolveVariant(rec.ownerId)
           newValue == NewValue(rec)
           out == IF AdminGraphqlThrows(reply)
                  THEN Done(rec, ErrorResp(500, "Internal error"))
                  ELSE IF reply.userErrors
                       THEN Done(rec, ErrorResp(500,
                                      "Failed to save subscription"))
                  ELSE Subscribed(rec)
       IN  /\ req' = Others(r, out, wrote, v)
           /\ store' = IF wrote
                       THEN [store EXCEPT ![v] = StringValue(newValue)]
                       ELSE store
           /\ track' = TrackWrite(v, rec.companyId, wrote,
                                   rec.mfValue = UnreadValue,
                                   out.resp = OkResp)
    /\ UNCHANGED <<env, started>>

-----------------------------------------------------------------------------
(* POST /subscribe, app-proxy route *)

ProxyAuth == {"throws", "noadmin", "admin"}

\* the action up to its first provider call; a GET goes to the loader
SubscribeProxyStart(r, method, auth, bodyIsJson, variantId, companyId) ==
    /\ Free(r)
    /\ started' = started + 1
    /\ LET in == [NoInput EXCEPT !.method = method, !.auth = auth,
                                 !.bodyIsJson = bodyIsJson,
                                 !.variantId = variantId,
                                 !.companyId = companyId]
           rec == [IdleReq EXCEPT !.kind = "subscribe", !.route = "proxy",
                                  !.input = in]
           ownerId == ToVariantGid(variantId)
           proceeds == /\ method \notin {"OPTIONS", "GET"}
                       /\ auth = "admin" /\ bodyIsJson
                       /\ variantId # EmptyStr /\ companyId # EmptyStr
       IN  /\ req' = [req EXCEPT ![r] =
                IF method = "OPTIONS" THEN Done(rec, PlainResp(204, "none"))
                ELSE IF method = "GET"
                     THEN Done([IdleReq EXCEPT !.kind = "subscribe",
                                               !.route = "proxy",
                                               !.input.method = method],
                               PlainResp(405, "Method not allowed"))
                ELSE IF auth = "noadmin"
                     THEN Done(rec, ErrorResp(500,
                              "Admin API is not available for this shop."))
                ELSE IF auth = "throws"
                     THEN Done(rec, ErrorResp(401,
                                      "Unauthorized app proxy request."))
                ELSE IF ~bodyIsJson
                     THEN Done(rec, ErrorResp(400, "Invalid JSON body"))
                ELSE IF variantId = EmptyStr \/ companyId = EmptyStr
                     THEN Done(rec, ErrorResp(400,
                                      "Missing variantId or companyId"))
                ELSE [rec EXCEPT !.pc = "read", !.ownerId = ownerId,
                                 !.companyId = companyId,
                                 !.snap = MetafieldValue(ReplyData, ownerId)]]
           /\ track' = IF proceeds
                       THEN TrackSubscribe(r, ResolveVariant(ownerId),
                                           companyId)
                       ELSE track
    /\ UNCHANGED <<store, env>>

\* a failed read is caught and the list starts empty; admin.graphql and
\* readRes.json() are taken to fail where adminGraphql does
SubscribeProxyRead(r, reply) ==
    /\ req[r].kind = "subscribe" /\ req[r].route = "proxy"
    /\ req[r].pc = "read"
    /\ reply \in QueryReplies
    /\ LET rec == [req[r] EXCEPT !.loads = @ + 1]
           value == MetafieldValue(reply, rec.ownerId)
           current == IF AdminGraphqlThrows(reply) THEN <<>>
                      ELSE ParseCompaniesProxy(value)
       IN  req' = [req EXCEPT ![r] =
              [rec EXCEPT !.pc = "write",
                          !.mfValue = IF AdminGraphqlThrows(reply)
                                         \/ reply.errors
                                      THEN UnreadValue ELSE value,
                          !.companies = PushIfAbsent(current, rec.companyId)]]
    /\ UNCHANGED <<store, env, track, started>>

SubscribeProxyWrite(r, reply) ==
    /\ req[r].kind = "subscribe" /\ req[r].route = "proxy"
    /\ req[r].pc = "write"
    /\ reply \in MutationReplies
    /\ CanReply(reply, req[r].ownerId)
    /\ LET rec == [req[r] EXCEPT !.writes = @ + 1,
                                  !.written = WriteResult(reply)]
           wrote == Applies(reply, rec.ownerId)
           v == ResolveVariant(rec.ownerId)
           out == IF AdminGraphqlThrows(reply)
                  THEN Done(rec, ErrorResp(500, "Failed to update metafield."))
                  ELSE IF reply.userErrors
                       THEN Done(rec, ErrorResp(400, "userErrors[0].message"))
                  ELSE Subscribed(rec)
       IN  /\ req' = Others(r, out, wrote, v)
           /\ store' = IF wrote
                       THEN [store EXCEPT ![v] =
                               StringValue(JSONStringify(rec.companies))]
                       ELSE store
           /\ track' = TrackWrite(v, rec.companyId, wrote,
                                   rec.mfValue = UnreadValue,
                                   out.resp = OkResp)
    /\ UNCHANGED <<env, started>>


-----------------------------------------------------------------------------
(* POST /stock-restored *)

KnownShop == <<"42102259871">>
\* the keys of SHOP_CONFIGS
SHOP_CONFIGS == {KnownShop}
ShopInputs == {EmptyStr, <<ShopPrefix, "42102259871">>, <<"999">>}

\* GID ("gid://shopify/Shop/666...") -> "666...", anything else as is
NormalizeShopId(shopId) ==
    IF Len(shopId) > 0 /\ shopId[1] = ShopPrefix
    THEN IF Len(shopId) > 1 THEN <<shopId[Len(shopId)]>> ELSE shopId
    ELSE shopId

\* getShopAdminConfig throws for a shop without an entry or without env vars
GetShopAdminConfigThrows(shopId) ==
    shopId \notin SHOP_CONFIGS \/ ~env.shopVars

Quantities == {NotANumber, Num(-1), Num(0), Num(1)}
SecretHeaders == {NoSecret, FlowSecret, WrongSecret}
\* variantId as Flow sends it: missing, a GID, or a bare id
FlowVariantInputs ==
    {EmptyStr, <<VariantPrefix, "v1">>, <<VariantPrefix, "v2">>, <<"v1">>}

\* as SecretRejected, without the check that a secret is configured
SecretRejectedHeaderOnly(header) == header # env.flowSecret
\* !expectedSecret || flowSecretHeader !== expectedSecret
SecretRejected(header) ==
    env.flowSecret = EmptyStr \/ header # env.flowSecret

\* as ThresholdCrossed, with previousInventoryQuantity === 0
ThresholdFromZeroOnly(inventoryQuantity, previousInventoryQuantity) ==
    inventoryQuantity > 0 /\ previousInventoryQuantity = 0
\* inventoryQuantity > 0 && previousInventoryQuantity <= 0
ThresholdCrossed(inventoryQuantity, previousInventoryQuantity) ==
    inventoryQuantity > 0 /\ previousInventoryQuantity <= 0

\* as RestoredChecks, with the shop's credentials looked up before the
\* threshold test
RestoredChecksShopFirst(shopId, variantId, qty, prev) ==
    IF shopId = EmptyStr THEN ErrorResp(400, "Missing shopId")
    ELSE IF variantId = EmptyStr THEN ErrorResp(400, "Missing variantId")
    ELSE IF qty.t # "number" \/ prev.t # "number"
         THEN ErrorResp(400, "quantities must be numbers")
    ELSE IF GetShopAdminConfigThrows(NormalizeShopId(shopId))
         THEN ErrorResp(500, "Unknown or misconfigured shopId")
    ELSE IF ~ThresholdCrossed(qty.n, prev.n)
         THEN SkippedResp("Inventory threshold not crossed")
    ELSE NoResp
\* the checks of the body, in the handler's order: the response of the
\* first that fails, NoResp when all pass
RestoredChecks(shopId, variantId, qty, prev) ==
    IF shopId = EmptyStr THEN ErrorResp(400, "Missing shopId")
    ELSE IF variantId = EmptyStr THEN ErrorResp(400, "Missing variantId")
    ELSE IF qty.t # "number" \/ prev.t # "number"
         THEN ErrorResp(400, "quantities must be numbers")
    ELSE IF ~ThresholdCrossed(qty.n, prev.n)
         THEN SkippedResp("Inventory threshold not crossed")
    ELSE IF GetShopAdminConfigThrows(NormalizeShopId(shopId))
         THEN ErrorResp(500, "Unknown or misconfigured shopId")
    ELSE NoResp

\* old is an invocation that ended 502 and in carries the same event
ResendOf(old, in) ==
    /\ old.kind = "restored" /\ old.pc = "done" /\ old.resp.status = 502
    /\ old.input.shopId = in.shopId /\ old.input.variantId = in.variantId
    /\ old.input.inventoryQuantity = in.inventoryQuantity
    /\ old.input.previousInventoryQuantity = in.previousInventoryQuantity

\* the handler from the body on, up to its first provider call; for the
\* record, a re-sent event carries the payload that failed before it
RestoredBody(r, rec, shopId, variantId, qty, prev) ==
    LET in == [rec.input EXCEPT !.bodyIsJson = TRUE, !.shopId = shopId,
                                !.variantId = variantId,
                                !.inventoryQuantity = qty,
                                !.previousInventoryQuantity = prev]
        rec2 == [rec EXCEPT !.input = in,
                            !.retryOf = IF ResendOf(req[r], in)
                                        THEN req[r].payload ELSE NoPayload]
        failed == RestoredChecks(shopId, variantId, qty, prev)
        proceeds == failed = NoResp
    IN  /\ req' = [req EXCEPT ![r] =
             IF ~proceeds THEN Done(rec2, failed)
             ELSE [rec2 EXCEPT !.pc = "loadVariant", !.ownerId = variantId,
                               !.snap = MetafieldValue(ReplyData, variantId)]]
        /\ track' = IF proceeds THEN TrackOther(ResolveVariant(variantId))
                    ELSE track

\* method, secret and body checks; the inputs are drawn where the handler
\* first reads them
RestoredStart(r, methods, headers, bodies, shops, variants, quantities) ==
    /\ Free(r)
    /\ started' = started + 1
    /\ UNCHANGED <<store, env>>
    /\ \E method \in methods :
         LET rec0 == [IdleReq EXCEPT !.kind = "restored", !.route = "flow",
                                     !.input.method = method]
         IN  IF method # "POST"
             THEN /\ req' = [req EXCEPT ![r] =
                               Done(rec0, PlainResp(405, "Method not allowed"))]
                  /\ track' = track
             ELSE \E header \in headers :
               LET rec1 == [rec0 EXCEPT !.input.secret = header]
               IN  IF SecretRejected(header)
                   THEN /\ req' = [req EXCEPT ![r] =
                                     Done(rec1, ErrorResp(401, "Unauthorized"))]
                        /\ track' = track
                   ELSE \E bodyIsJson \in bodies :
                     IF ~bodyIsJson
                     THEN /\ req' = [req EXCEPT ![r] =
                                  Done(rec1, ErrorResp(400, "Invalid JSON"))]
                          /\ track' = track
                     ELSE \E shopId \in shops, variantId \in variants,
                             qty \in quantities, prev \in quantities :
                            RestoredBody(r, rec1, shopId, variantId, qty, prev)

\* as NoSubscribedCompanies, without the early return
NoSubscribedCompaniesNever(companyIds) == FALSE
\* companyIds.length === 0
NoSubscribedCompanies(companyIds) == Len(companyIds) = 0

\* the variant query returns (or throws); the subscriber list is extracted
RestoredLoadVariant(r, reply) ==
    /\ req[r].kind = "restored" /\ req[r].pc = "loadVariant"
    /\ reply \in QueryReplies
    /\ LET rec == [req[r] EXCEPT !.loads = @ + 1]
           found == ~reply.errors /\ ResolveVariant(rec.ownerId) # NoVariant
           rawCompanies == MetafieldValue(reply, rec.ownerId)
           companyIds == ParseCompanies(rawCompanies)
       IN  req' = [req EXCEPT ![r] =
              IF AdminGraphqlThrows(reply)
              THEN Done(rec, ErrorResp(500,
                             "Error loading variant via Admin API"))
              ELSE IF ~found
                   THEN Done(rec, ErrorResp(404, "Variant not found"))
              ELSE IF NoSubscribedCompanies(companyIds)
                   THEN Done([rec EXCEPT !.mfValue = rawCompanies],
                             SkippedResp("No subscribed companies"))
              ELSE [rec EXCEPT !.pc = "lookups", !.mfValue = rawCompanies,
                               !.companies = companyIds,
                               !.got = [i \in 1..Len(companyIds) |->
                                          "pending"]]]
    /\ UNCHANGED <<store, env, track, started>>

\* what the company query can return for a company: the query selects
\* mainContact.customer.defaultEmailAddress.emailAddress only
CompanyNode(company, mainContact, customer, emailAddress) ==
    [company |-> company, mainContact |-> mainContact,
     customer |-> customer, emailAddress |-> emailAddress]
EmailOf(companyId) == companyId \o <<"@mail">>
\* the provider finds a company only under a well-formed company GID
CompanyNodes(companyGid) ==
    IF /\ Len(companyGid) = 2 /\ companyGid[1] = CompanyPrefix
       /\ <<companyGid[2]>> \in Companies
    THEN { CompanyNode(FALSE, FALSE, FALSE, EmptyStr),
           CompanyNode(TRUE, FALSE, FALSE, EmptyStr),
           CompanyNode(TRUE, TRUE, TRUE, EmptyStr),
           CompanyNode(TRUE, TRUE, TRUE, EmailOf(<<companyGid[2]>>)) }
    ELSE { CompanyNode(FALSE, FALSE, FALSE, EmptyStr) }

\* mc?.customer?.defaultEmailAddress?.emailAddress || mc?.customer?.email
\* || mc?.email; the last two are never selected, so undefined
DeriveEmail(node) ==
    IF node.mainContact /\ node.customer THEN node.emailAddress ELSE EmptyStr

\* what the provider answered to one company lookup of the batch
LookupOutcome(reply, node) ==
    IF ~reply.sent \/ ~reply.isJson \/ ~reply.httpOk THEN "threw"
    ELSE IF reply.errors \/ ~node.company THEN "nocompany"
    ELSE IF ~node.mainContact \/ ~node.customer
            \/ node.emailAddress = EmptyStr THEN "noemail"
    ELSE "email"

\* as LookupPushes, without the email test
LookupPushesAnyCompany(reply, node) ==
    ~AdminGraphqlThrows(reply) /\ ~reply.errors /\ node.company
\* the lookup reaches recipients.push: no throw, a company node, an email
LookupPushes(reply, node) ==
    /\ ~AdminGraphqlThrows(reply)
    /\ ~reply.errors /\ node.company
    /\ DeriveEmail(node) # EmptyStr

\* one lookup of the batch completes, in any order
RestoredLookup(r, i, reply, node) ==
    /\ req[r].kind = "restored" /\ req[r].pc = "lookups"
    /\ i \in 1..Len(req[r].companies)
    /\ req[r].got[i] = "pending"
    /\ reply \in QueryReplies
    /\ node \in CompanyNodes(CompanyGid(req[r].companies[i].v))
    /\ LET rec == [req[r] EXCEPT !.lookups = @ + 1]
           companyId == rec.companies[i].v
       IN  req' = [req EXCEPT ![r] =
              [rec EXCEPT !.got[i] = LookupOutcome(reply, node),
                          !.recipients =
                             IF LookupPushes(reply, node)
                             THEN Append(@, [id |-> companyId,
                                             email |-> DeriveEmail(node)])
                             ELSE @]]
    /\ UNCHANGED <<store, env, track, started>>

ProductPrefix == "gid://shopify/Product/"
Digits == {"0", "1", "2", "3", "4", "5", "6", "7", "8", "9"}
DigitValue(ch) ==
    CASE ch = "0" -> 0 [] ch = "1" -> 1 [] ch = "2" -> 2 [] ch = "3" -> 3
      [] ch = "4" -> 4 [] ch = "5" -> 5 [] ch = "6" -> 6 [] ch = "7" -> 7
      [] ch = "8" -> 8 [] ch = "9" -> 9

RECURSIVE LeadingDigits(_)
LeadingDigits(chars) ==
    IF chars = <<>> \/ chars[1] \notin Digits THEN <<>>
    ELSE <<chars[1]>> \o LeadingDigits(Tail(chars))

RECURSIVE DigitsValue(_)
DigitsValue(ds) ==
    IF ds = <<>> THEN 0
    ELSE 10 * DigitsValue(SubSeq(ds, 1, Len(ds) - 1)) + DigitValue(ds[Len(ds)])

\* parseInt(last, 10): the leading digits, NaN without any
ParseInt(chars) ==
    LET ds == LeadingDigits(chars)
    IN  [nan |-> ds = <<>>, n |-> DigitsValue(ds)]

\* the product GIDs the provider may return: the prefix, then the characters
\* of the trailing segment; <<>> is a variant without product
ProductGids ==
    { <<ProductPrefix, "4", "2">>, <<ProductPrefix, "x">>,
      <<ProductPrefix, "0">>, <<>> }

\* productNumericId: null unless the trailing segment parses; 0 is falsy too
ProductNumericId(productGid) ==
    IF productGid = <<>> THEN 0
    ELSE LET asNum == ParseInt(Tail(productGid))
         IN  IF asNum.nan THEN 0 ELSE asNum.n

\* as NoRecipients, without the early return
NoRecipientsNever(recipients) == FALSE
\* recipients.length === 0
NoRecipients(recipients) == Len(recipients) = 0

\* as BatchSettled, rejecting for good when a lookup has thrown
BatchSettledUncaught(got) ==
    \A i \in 1..Len(got) : got[i] \notin {"pending", "threw"}
\* as BatchSettled, resolving with the first lookup that settles
BatchSettledFirst(got) == \E i \in 1..Len(got) : got[i] # "pending"
\* await Promise.all(...) of lookups that catch their own exceptions: it
\* resolves when every lookup has settled
BatchSettled(got) == \A i \in 1..Len(got) : got[i] # "pending"

\* Promise.all resolves: recipients and product id are checked
RestoredJoin(r, productGid) ==
    /\ req[r].kind = "restored" /\ req[r].pc = "lookups"
    /\ BatchSettled(req[r].got)
    /\ productGid \in ProductGids
    /\ LET rec == req[r]
           read == [rec EXCEPT !.productGid = productGid]
           productNumericId == ProductNumericId(productGid)
       IN  req' = [req EXCEPT ![r] =
              IF NoRecipients(rec.recipients)
              THEN Done(rec, SkippedResp("No company emails found"))
              ELSE IF productNumericId = 0
                   THEN Done(read, ErrorResp(500,
                         "Could not derive product_id from product GID"))
              ELSE [read EXCEPT !.pc = "dispatch", !.got = <<>>,
                      !.payload =
                         [product_id |-> productNumericId,
                          subscribers |->
                             [i \in 1..Len(rec.recipients) |->
                                rec.recipients[i].email]]]]
    /\ UNCHANGED <<store, env, track, started>>

\* the dispatch endpoint's reply: did fetch and the body read succeed, is
\* the status 2xx
DispatchReplies == [sent : BOOLEAN, httpOk : BOOLEAN]
\* how the endpoint answered
DispatchResult(reply) ==
    IF ~reply.sent THEN "transport"
    ELSE IF ~reply.httpOk THEN "non2xx" ELSE "ok"

\* as DispatchFailed, without the !ocResp.ok test
DispatchFailedTransportOnly(reply) == ~reply.sent
\* the fetch (or the body read) throws, or the status is not 2xx
DispatchFailed(reply) == ~reply.sent \/ ~reply.httpOk

\* as FailDispatch, posting again instead of returning
FailDispatchRetry(rec, reply) == [rec EXCEPT !.pc = "dispatch"]
\* a failed dispatch ends the invocation with 502
FailDispatch(rec, reply) ==
    IF ~reply.sent
    THEN Done(rec, ErrorResp(502, "Error calling OpenCart sendEmail"))
    ELSE Done(rec, ErrorResp(502, "OpenCart sendEmail failed"))

\* as StoreOn502, with the list cleared
StoreOn502Cleared(rec) ==
    [store EXCEPT ![ResolveVariant(rec.ownerId)] =
                     StringValue(JSONStringify(<<>>))]
\* the 502 returns come before the clearing write: the lists stay
StoreOn502(rec) == store

\* the one POST to the dispatch endpoint returns (or throws)
RestoredDispatch(r, reply) ==
    /\ req[r].kind = "restored" /\ req[r].pc = "dispatch"
    /\ reply \in DispatchReplies
    /\ LET rec == [req[r] EXCEPT !.dispatches = @ + 1,
                                  !.dispatched = DispatchResult(reply)]
       IN  /\ req' = [req EXCEPT ![r] =
                 IF DispatchFailed(reply) THEN FailDispatch(rec, reply)
                 ELSE [rec EXCEPT !.pc = "clear"]]
           /\ store' = IF DispatchFailed(reply) THEN StoreOn502(rec)
                       ELSE store
    /\ UNCHANGED <<env, track, started>>

\* as ClearValue, keeping the companies that are not among the recipients
ClearValueUnnotified(rec) ==
    JSONStringify(SelectSeq(rec.companies,
        LAMBDA c : \A i \in 1..Len(rec.recipients) :
                      rec.recipients[i].id # c.v))
\* value: "[]"
ClearValue(rec) == JSONStringify(<<>>)

\* as ClearResponse, failing the invocation when the clear failed
ClearResponseStrict(rec, reply) ==
    IF AdminGraphqlThrows(reply) \/ reply.userErrors
    THEN ErrorResp(500, "Failed to clear notify_companies")
    ELSE SentResp(Len(rec.recipients))
\* the final response, whatever the clearing write returned
ClearResponse(rec, reply) == SentResp(Len(rec.recipients))

\* the clearing metafieldsSet returns (or throws); the response is the same
RestoredClear(r, reply) ==
    /\ req[r].kind = "restored" /\ req[r].pc = "clear"
    /\ reply \in MutationReplies
    /\ CanReply(reply, req[r].ownerId)
    /\ LET rec == [req[r] EXCEPT !.writes = @ + 1,
                                  !.written = WriteResult(reply)]
           wrote == Applies(reply, rec.ownerId)
           v == ResolveVariant(rec.ownerId)
       IN  /\ req' = Others(r, Done(rec, ClearResponse(rec, reply)),
                            wrote, v)
           /\ store' = IF wrote
                       THEN [store EXCEPT ![v] = StringValue(ClearValue(rec))]
                       ELSE store
    /\ UNCHANGED <<env, track, started>>

-----------------------------------------------------------------------------
(* GET /list *)

\* authenticate.admin(request): throws without a session
ListAuth == {"throws", "admin"}
\* the product that owns the variants, and one the shop does not have
KnownProduct == <<ProductPrefix, "4", "2">>
ProductInputs == {EmptyStr, KnownProduct, <<ProductPrefix, "x">>}
\* variants.nodes, in the provider's order
VariantNodes == <<"v1", "v2">>
CompanyName(id) == <<"name of">> \o id

\* Boolean(x) of a parsed JSON scalar
TruthyScalar(x) ==
    CASE x.t = "null" -> FALSE
      [] x.t = "string" -> x.v # EmptyStr
      [] x.t = "number" -> x.v # <<"0">>
RECURSIVE FilterBoolean(_)
\* parsed.filter(Boolean)
FilterBoolean(arr) ==
    IF arr = <<>> THEN <<>>
    ELSE IF TruthyScalar(arr[1]) THEN <<arr[1]>> \o FilterBoolean(Tail(arr))
    ELSE FilterBoolean(Tail(arr))

\* companyIds of one row: [] unless the value is truthy, parses and is an
\* array; every truthy element is kept, whatever its type
ListCompanyIds(value) ==
    IF ~Truthy(value) THEN <<>>
    ELSE LET parsed == JSONParse(value.text)
         IN  IF parsed.ok /\ parsed.isArray THEN FilterBoolean(parsed.arr)
             ELSE <<>>

\* one row of the answer; title and sku are display text and left out
ListRow(v, companies, companyNames) ==
    [variantId |-> <<VariantPrefix, v>>, companies |-> companies,
     companyNames |-> companyNames]
NoNames == <<>>
\* rows: variants.map(...), [] when the product is not found
ListRows(productId, reply) ==
    IF reply.errors \/ productId # KnownProduct THEN <<>>
    ELSE [i \in 1..Len(VariantNodes) |->
            ListRow(VariantNodes[i], ListCompanyIds(store[VariantNodes[i]]),
                    NoNames)]

RECURSIVE FlatCompanies(_)
\* rows.flatMap((r) => r.companies)
FlatCompanies(rows) ==
    IF rows = <<>> THEN <<>>
    ELSE rows[1].companies \o FlatCompanies(Tail(rows))
RECURSIVE Unique(_)
\* Array.from(new Set(...)): the first occurrence of each element
Unique(arr) ==
    IF arr = <<>> THEN <<>>
    ELSE LET init == Unique(SubSeq(arr, 1, Len(arr) - 1))
         IN  IF Includes(init, arr[Len(arr)]) THEN init
             ELSE Append(init, arr[Len(arr)])
AllCompanyIds(rows) == Unique(FilterBoolean(FlatCompanies(rows)))

\* id.startsWith is not a function unless id is a string
StartsWithThrows(ids) == \E i \in 1..Len(ids) : ids[i].t # "string"
\* id.startsWith("gid://") ? id : `gid://shopify/Company/${id}`
ListCompanyGid(id) == IF StartsWithGid(id) THEN id ELSE <<CompanyPrefix>> \o id

\* idToName[id] ?? id, from the nodes the provider returned
NameOf(id, reply, found) ==
    LET gid == ListCompanyGid(id.v)
        known == /\ ~reply.errors /\ found
                 /\ Len(gid) = 2 /\ gid[1] = CompanyPrefix
                 /\ <<gid[2]>> \in Companies
    IN  IF known THEN CompanyName(<<gid[2]>>) ELSE id.v
\* rows.map((row) => ({ ...row, companyNames }))
EnrichedRows(rows, reply, found) ==
    [i \in 1..Len(rows) |->
       ListRow(rows[i].variantId[2], rows[i].companies,
               [j \in 1..Len(rows[i].companies) |->
                  NameOf(rows[i].companies[j], reply, found)])]

\* as ListCatch, answering 200
ListCatchOk(rec, why) ==
    Done([rec EXCEPT !.rows = <<>>, !.threw = why], ArrayResp(200))
\* catch (error): json([], { status: 500 })
ListCatch(rec, why) ==
    Done([rec EXCEPT !.rows = <<>>, !.threw = why], ArrayResp(500))

\* the loader up to its first provider call, and the action export, which
\* answers every method the loader does not get
ListStart(r, method, productId, auth) ==
    /\ Free(r)
    /\ started' = started + 1
    /\ LET rec0 == [IdleReq EXCEPT !.kind = "list", !.route = "admin",
                                   !.input.method = method]
           rec1 == [rec0 EXCEPT !.input.productId = productId]
           rec2 == [rec1 EXCEPT !.input.auth = auth]
       IN  req' = [req EXCEPT ![r] =
             IF method = "OPTIONS" THEN Done(rec0, PlainResp(204, "none"))
             ELSE IF method # "GET"
                  THEN Done(rec0, PlainResp(405, "Method not allowed"))
             ELSE IF productId = EmptyStr THEN Done(rec1, ArrayResp(200))
             ELSE IF auth = "throws" THEN ListCatch(rec2, "auth")
             ELSE [rec2 EXCEPT !.pc = "product"]]
    /\ UNCHANGED <<store, env, track>>

\* the product query returns (or throws) and the rows are built;
\* admin.graphql and response.json() are taken to fail where adminGraphql
\* does
ListProduct(r, reply) ==
    /\ req[r].kind = "list" /\ req[r].pc = "product"
    /\ reply \in QueryReplies
    /\ LET rec == [req[r] EXCEPT !.loads = @ + 1]
           rows == ListRows(rec.input.productId, reply)
           allCompanyIds == AllCompanyIds(rows)
       IN  req' = [req EXCEPT ![r] =
             IF AdminGraphqlThrows(reply) THEN ListCatch(rec, "provider")
             ELSE IF Len(allCompanyIds) = 0
                  THEN Done([rec EXCEPT !.rows = rows], ArrayResp(200))
             ELSE IF StartsWithThrows(allCompanyIds)
                  THEN ListCatch(rec, "type")
             ELSE [rec EXCEPT !.pc = "companies", !.rows = rows]]
    /\ UNCHANGED <<store, env, track, started>>

\* the nodes query returns (or throws) and the names are attached
ListCompanies(r, reply, found) ==
    /\ req[r].kind = "list" /\ req[r].pc = "companies"
    /\ reply \in QueryReplies
    /\ LET rec == [req[r] EXCEPT !.lookups = @ + 1]
       IN  req' = [req EXCEPT ![r] =
             IF AdminGraphqlThrows(reply) THEN ListCatch(rec, "provider")
             ELSE Done([rec EXCEPT !.rows =
                                     EnrichedRows(rec.rows, reply, found)],
                       ArrayResp(200))]
    /\ UNCHANGED <<store, env, track, started>>

-----------------------------------------------------------------------------
(* Admin index loader *)

\* companies of one variant: nothing unless the value is truthy, parses and
\* is an array; the elements are taken as they are
IndexCompanies(value) ==
    IF ~Truthy(value) THEN <<>>
    ELSE LET parsed == JSONParse(value.text)
         IN  IF parsed.ok /\ parsed.isArray THEN parsed.arr ELSE <<>>

\* as LoopContinues, with safetyCounter <= 50
LoopContinuesOneMore(rec) ==
    rec.hasNextPage /\ rec.safetyCounter <= SafetyLimit
\* while (hasNextPage && safetyCounter < 50)
LoopContinues(rec) == rec.hasNextPage /\ rec.safetyCounter < SafetyLimit

\* authenticate.admin and the loop variables; nothing in the loader
\* catches, so a throw leaves the answer to the framework
IndexStart(r, auth) ==
    /\ Free(r)
    /\ started' = started + 1
    /\ LET rec == [IdleReq EXCEPT !.kind = "index", !.route = "admin",
                                  !.input.method = "GET",
                                  !.input.auth = auth]
       IN  req' = [req EXCEPT ![r] =
             IF auth = "throws" THEN Done([rec EXCEPT !.threw = "auth"],
                                          NoResp)
             ELSE [rec EXCEPT !.pc = "page", !.hasNextPage = TRUE]]
    /\ UNCHANGED <<store, env, track>>

\* one turn of the loop: a page of products is requested and returns (or
\* throws) with so many edges and its pageInfo.hasNextPage; got holds the
\* productsConnection of the page
IndexPage(r, reply, edges, pageHasNext) ==
    /\ req[r].kind = "index" /\ req[r].pc = "page"
    /\ LoopContinues(req[r])
    /\ reply \in QueryReplies
    /\ LET rec == [req[r] EXCEPT !.safetyCounter = @ + 1, !.loads = @ + 1]
           n == IF reply.errors THEN 0 ELSE edges
           hasNextPage == ~reply.errors /\ pageHasNext
       IN  req' = [req EXCEPT ![r] =
             IF AdminGraphqlThrows(reply)
             THEN Done([rec EXCEPT !.threw = "provider"], NoResp)
             ELSE [rec EXCEPT
                     !.got = <<[edges |-> n, hasNextPage |-> hasNextPage]>>,
                     !.allProductEdges = @ + n,
                     !.hasNextPage = hasNextPage /\ n > 0]]
    /\ UNCHANGED <<store, env, track, started>>

\* after the loop: the subscriptions of every collected product edge (each
\* edge carries the variants), the company names query when there is a
\* company, the history fetch (caught, not part of the answer modelled
\* here) and the answer
IndexFinish(r, reply) ==
    /\ req[r].kind = "index" /\ req[r].pc = "page"
    /\ ~LoopContinues(req[r])
    /\ reply \in QueryReplies
    /\ LET rec == req[r]
           perEdge == SelectSeq(
               [i \in 1..Len(VariantNodes) |->
                  ListRow(VariantNodes[i],
                          IndexCompanies(store[VariantNodes[i]]), NoNames)],
               LAMBDA row : Len(row.companies) > 0)
           subscriptions ==
               [i \in 1..(rec.allProductEdges * Len(perEdge)) |->
                  perEdge[((i - 1) % Len(perEdge)) + 1]]
           asks == Len(subscriptions) > 0
           asked == [rec EXCEPT !.lookups = IF asks THEN @ + 1 ELSE @]
       IN  /\ ~asks => reply = ReplyData
           /\ req' = [req EXCEPT ![r] =
                 IF asks /\ AdminGraphqlThrows(reply)
                 THEN Done([asked EXCEPT !.threw = "provider"], NoResp)
                 ELSE Done([asked EXCEPT !.rows = subscriptions],
                           [NoResp EXCEPT !.status = 200])]
    /\ UNCHANGED <<store, env, track, started>>

-----------------------------------------------------------------------------
(* The system *)

\* the steps of the handlers in flight in the slots R
Handlers(R) ==
    \/ \E r \in R, reply \in QueryReplies : SubscribeOriginRead(r, reply)
    \/ \E r \in R, reply \in MutationReplies : SubscribeOriginWrite(r, reply)
    \/ \E r \in R, reply \in QueryReplies : SubscribeProxyRead(r, reply)
    \/ \E r \in R, reply \in MutationReplies : SubscribeProxyWrite(r, reply)
    \/ \E r \in R, reply \in QueryReplies : RestoredLoadVariant(r, reply)
    \/ \E r \in R, i \in 1..MaxListLen, reply \in QueryReplies,
          node \in UNION {CompanyNodes(CompanyGid(c)) : c \in Companies} :
         RestoredLookup(r, i, reply, node)
    \/ \E r \in R, productGid \in ProductGids : RestoredJoin(r, productGid)
    \/ \E r \in R, reply \in DispatchReplies : RestoredDispatch(r, reply)
    \/ \E r \in R, reply \in MutationReplies : RestoredClear(r, reply)

\* requests that pass their handlers' input checks
ValidRequests(R, bareVariants) ==
    \/ \E r \in R, variantIdRaw \in bareVariants, companyId \in Companies :
         SubscribeOriginStart(r, "POST", MappedOrigin, variantIdRaw, companyId)
    \/ \E r \in R, variantId \in bareVariants, companyId \in Companies :
         SubscribeProxyStart(r, "POST", "admin", TRUE, variantId, companyId)
    \/ \E r \in R :
         RestoredStart(r, {"POST"}, {FlowSecret}, {TRUE},
                       {<<ShopPrefix, "42102259871">>},
                       {<<VariantPrefix, v[1]>> : v \in bareVariants},
                       {Num(0), Num(1)})

\* requests in flight together, all for one variant
Next == ValidRequests(Req, {<<"v1">>}) \/ Handlers(Req)

Spec == Init /\ [][Next]_vars

\* one request at a time, for either variant
NextSeq == ValidRequests({"r1"}, {<<"v1">>, <<"v2">>}) \/ Handlers({"r1"})

SpecSeq == InitSeq /\ [][NextSeq]_vars

\* one request at a time, any input
AnyRequest ==
    \/ \E method \in Methods, origin \in Origins,
          variantIdRaw \in VariantInputs, companyId \in CompanyInputs :
         SubscribeOriginStart("r1", method, origin, variantIdRaw, companyId)
    \/ \E method \in Methods, auth \in ProxyAuth,
          bodyIsJson \in BOOLEAN, variantId \in VariantInputs,
          companyId \in CompanyInputs :
         SubscribeProxyStart("r1", method, auth, bodyIsJson, variantId,
                             companyId)
    \/ RestoredStart("r1", {"POST", "GET"}, SecretHeaders, BOOLEAN,
                     ShopInputs, FlowVariantInputs, Quantities)

NextGate == AnyRequest \/ Handlers({"r1"})

SpecGate == InitGate /\ [][NextGate]_vars

\* every stored value, any configuration, one request left to send
InitList ==
    /\ store \in {[v \in Variants |-> IF v = "v1" THEN x
                                      ELSE ListValue(<<JsString(<<"c2">>)>>)] :
                   x \in InitValues}
    /\ env \in [flowSecret : {NoSecret, FlowSecret}, shopVars : BOOLEAN]
    /\ req = [r \in Req |-> IdleReq]
    /\ track = [v \in Variants |-> NewTrack(v)]
    /\ started = MaxRequests - GateRequests

ListRequest ==
    \E method \in Methods, productId \in ProductInputs, auth \in ListAuth :
      ListStart("r1", method, productId, auth)
ListHandlers(R) ==
    \/ \E r \in R, reply \in QueryReplies : ListProduct(r, reply)
    \/ \E r \in R, reply \in QueryReplies, found \in BOOLEAN :
         ListCompanies(r, reply, found)

\* one request at a time to any of the three endpoints, any input
NextList ==
    AnyRequest \/ ListRequest \/ Handlers({"r1"}) \/ ListHandlers({"r1"})

SpecList == InitList /\ [][NextList]_vars

\* one request with any input, where every outbound call of a handler in
\* flight eventually returns or fails
SpecLive == InitList /\ [][NextGate]_vars /\ WF_vars(Handlers({"r1"}))

\* one request to the admin index, any provider answers
NextIndex ==
    \/ \E auth \in ListAuth : IndexStart("r1", auth)
    \/ \E reply \in QueryReplies, edges \in {0, 1}, pageHasNext \in BOOLEAN :
         IndexPage("r1", reply, edges, pageHasNext)
    \/ \E reply \in QueryReplies : IndexFinish("r1", reply)

SpecIndex == InitList /\ [][NextIndex]_vars

\* FrameRequests requests are left to send, each list holds one company
InitFrame ==
    /\ store = [v \in Variants |->
                 ListValue(<<JsString(IF v = "v1" THEN <<"c1">>
                                      ELSE <<"c2">>)>>)]
    /\ env = [flowSecret |-> FlowSecret, shopVars |-> TRUE]
    /\ req = [r \in Req |-> IdleReq]
    /\ track = [v \in Variants |-> NewTrack(v)]
    /\ started = MaxRequests - FrameRequests

\* requests in flight together, for either variant
NextFrame == ValidRequests(Req, {<<"v1">>, <<"v2">>}) \/ Handlers(Req)

SpecFrame == InitFrame /\ [][NextFrame]_vars

-----------------------------------------------------------------------------
(* Properties *)

\* the stored value of v as a list, every element kept
StoredList(v) == ParseCompaniesProxy(store[v])
Elements(arr) == {arr[i] : i \in 1..Len(arr)}
NoDuplicates(arr) == \A i, j \in 1..Len(arr) : arr[i] = arr[j] => i = j
Occurrences(arr, x) == Cardinality({i \in 1..Len(arr) : arr[i] = x})
\* an absent or empty list
EmptyListValues == {NullValue, StringValue(<<>>), ListValue(<<>>)}
Restored(r) == req[r].kind = "restored"
NoCalls(rec) ==
    rec.loads = 0 /\ rec.lookups = 0 /\ rec.dispatches = 0 /\ rec.writes = 0

\* C1: over a sequence of non-overlapping subscribe calls for one variant
\* and one company, starting from an absent or empty list, the stored list
\* is that company alone once a call has carried out its write (and the
\* initial value until then), however many calls follow.
C1_SameCompanyOnce ==
    \A v \in Variants, c \in Companies :
      (/\ track[v].seqOK
       /\ track[v].initial \in EmptyListValues
       /\ track[v].asked = {c})
      => /\ track[v].applied = {} => store[v] = track[v].initial
         /\ track[v].applied # {} => store[v] = ListValue(<<JsString(c)>>)

\* two or more calls for the same company have written
C1_Witness ==
    \E v \in Variants :
      /\ track[v].seqOK /\ track[v].initial \in EmptyListValues
      /\ track[v].asked = {<<"c1">>} /\ track[v].n >= 2
      /\ store[v] = ListValue(<<JsString(<<"c1">>)>>)

\* C2 (as stated): after a stock-restored invocation whose dispatch call
\* succeeded, the variant's subscriber list read back is empty.
C2_ClearedAfterDispatch ==
    \A r \in Req :
      (/\ Restored(r) /\ req[r].pc = "done"
       /\ req[r].dispatched = "ok" /\ ~req[r].foreign)
      => StoredList(Target(r)) = <<>>

\* C2 (amended): after a stock-restored invocation whose dispatch call
\* succeeded and whose clearing write the provider applied, the variant's
\* stored value is the empty list, until another request writes it.
C2_ClearedWhenClearApplied ==
    \A r \in Req :
      (/\ Restored(r) /\ req[r].pc = "done"
       /\ req[r].dispatched = "ok" /\ req[r].written = "applied"
       /\ ~req[r].foreign)
      => /\ store[Target(r)] = ListValue(<<>>)
         /\ StoredList(Target(r)) = <<>>

\* an invocation that notified one of two subscribers and cleared the list
C2_Witness ==
    \E r \in Req :
      /\ Restored(r) /\ req[r].pc = "done"
      /\ req[r].dispatched = "ok" /\ req[r].written = "applied"
      /\ ~req[r].foreign /\ req[r].lookups = 2
      /\ Len(req[r].payload.subscribers) = 1
      /\ store[Target(r)] = ListValue(<<>>)

\* C3: when the dispatch call fails in transport or returns a non-2xx status,
\* the invocation ends with 502 and ok:false, has issued no write, and the
\* stored list is what it was when the invocation began (no other request
\* having written it meanwhile).
C3_DispatchFailure ==
    \A r \in Req :
      (Restored(r) /\ req[r].dispatched \in {"transport", "non2xx"})
      => /\ req[r].pc = "done"
         /\ req[r].resp.status = 502 /\ req[r].resp.ok = "false"
         /\ req[r].writes = 0 /\ req[r].written = "none"
         /\ ~req[r].foreign => store[Target(r)] = req[r].snap

\* a non-2xx dispatch answered 502 with the list still in place
C3_Witness ==
    \E r \in Req :
      /\ Restored(r) /\ req[r].dispatched = "non2xx"
      /\ req[r].resp.status = 502 /\ ~req[r].foreign
      /\ StoredList(Target(r)) # <<>>
      /\ store[Target(r)] = req[r].snap

\* an authenticated POST /stock-restored carrying shopId, variantId and two
\* numeric quantities
CarriesEvent(rec) ==
    /\ rec.kind = "restored" /\ rec.input.method = "POST"
    /\ env.flowSecret # EmptyStr /\ rec.input.secret = env.flowSecret
    /\ rec.input.bodyIsJson
    /\ rec.input.shopId # EmptyStr /\ rec.input.variantId # EmptyStr
    /\ rec.input.inventoryQuantity.t = "number"
    /\ rec.input.previousInventoryQuantity.t = "number"
Crossing(rec) ==
    /\ rec.input.previousInventoryQuantity.n <= 0
    /\ rec.input.inventoryQuantity.n > 0
ReachedVariantLookup(rec) == rec.pc = "loadVariant" \/ rec.loads > 0
SkippedAtThreshold(rec) ==
    /\ rec.pc = "done"
    /\ rec.resp = SkippedResp("Inventory threshold not crossed")
    /\ NoCalls(rec)
HasCredentials(rec) ==
    ~GetShopAdminConfigThrows(NormalizeShopId(rec.input.shopId))

\* C4 (as stated): for an authenticated POST /stock-restored carrying
\* shopId, variantId and two numeric quantities, the handler proceeds to the
\* variant lookup if and only if previousInventoryQuantity <= 0 and
\* inventoryQuantity > 0; otherwise it returns 200 skipped without any
\* provider call, dispatch or write.
C4_ThresholdGate ==
    \A r \in Req :
      CarriesEvent(req[r])
      => /\ ReachedVariantLookup(req[r]) <=> Crossing(req[r])
         /\ ~Crossing(req[r]) => SkippedAtThreshold(req[r])

\* C4 (amended): such a request proceeds to the variant lookup if and only
\* if the quantities cross the threshold and the shopId has a credential
\* binding; a crossing event for a shop without one is answered 500, every
\* non-crossing event 200 skipped, both without any provider call, dispatch
\* or write.
C4_ThresholdGateKnownShop ==
    \A r \in Req :
      CarriesEvent(req[r])
      => /\ ReachedVariantLookup(req[r])
              <=> (Crossing(req[r]) /\ HasCredentials(req[r]))
         /\ ~Crossing(req[r]) => SkippedAtThreshold(req[r])
         /\ (Crossing(req[r]) /\ ~HasCredentials(req[r]))
              => /\ req[r].pc = "done" /\ req[r].resp.status = 500
                 /\ req[r].resp.ok = "false" /\ NoCalls(req[r])

\* previous -1, new 1: the handler is at the variant lookup
C4_Witness ==
    \E r \in Req :
      /\ CarriesEvent(req[r]) /\ req[r].pc = "loadVariant"
      /\ req[r].input.previousInventoryQuantity = Num(-1)
      /\ req[r].input.inventoryQuantity = Num(1)

\* C5: after two non-overlapping subscribes of distinct companies c1 and c2
\* to one variant, both answered 200 and both written, starting from an
\* absent or empty list and in either order, the stored list holds exactly
\* c1 and c2.
C5_RoundTrip ==
    \A v \in Variants :
      (/\ track[v].seqOK /\ track[v].initial \in EmptyListValues
       /\ track[v].asked = Companies
       /\ track[v].calls = 2 /\ track[v].oks = 2 /\ track[v].n = 2
       /\ \A q \in Req : ~(Active(q) /\ Target(q) = v))
      => Elements(StoredList(v)) = {JsString(c) : c \in Companies}

\* the metafield values that hold no list: absent, empty, text that is not
\* JSON, JSON that is not an array
HoldsNoList(value) ==
    /\ value # UnreadValue
    /\ \/ ~value.present
       \/ value.text = <<>>
       \/ ~JSONParse(value.text).ok
       \/ ~JSONParse(value.text).isArray

\* C6: a read that returns an absent metafield, an empty value, text that
\* is not valid JSON or JSON that is not an array yields the empty list and
\* no error response: stock-restored answers 200 skipped (no subscribed
\* companies), subscribe goes on to write the list of its one company.
C6_FailOpenRead ==
    \A r \in Req :
      HoldsNoList(req[r].mfValue)
      => /\ req[r].kind = "restored"
              => /\ req[r].pc = "done"
                 /\ req[r].resp = SkippedResp("No subscribed companies")
         /\ req[r].kind = "subscribe"
              => /\ req[r].pc = "write" /\ req[r].resp = NoResp
                 /\ req[r].companies = <<JsString(req[r].companyId)>>

\* a subscribe that read text which is not JSON
C6_Witness ==
    \E r \in Req :
      /\ req[r].kind = "subscribe" /\ req[r].pc = "write"
      /\ req[r].mfValue.present /\ req[r].mfValue.text # <<>>
      /\ ~JSONParse(req[r].mfValue.text).ok
      /\ req[r].companies = <<JsString(req[r].companyId)>>

\* the lookups of the batch that returned a company with an email
WithEmail(rec) == {i \in 1..Len(rec.got) : rec.got[i] = "email"}

\* what one step does to the invocation in slot r
PartialRecipientsStep(r) ==
    LET rec == req[r]
        after == req'[r]
        subscribers == after.payload.subscribers
    IN  /\ (Restored(r) /\ rec.pc = "lookups" /\ after.pc = "lookups")
             => after.resp = NoResp
        /\ (Restored(r) /\ rec.pc = "lookups" /\ after.pc = "dispatch")
             => /\ Len(subscribers) = Cardinality(WithEmail(rec))
                /\ \A c \in Companies :
                     Occurrences(subscribers, EmailOf(c)) =
                       Cardinality({i \in WithEmail(rec) :
                                      rec.companies[i].v = c})
        /\ (Restored(r) /\ rec.pc = "lookups" /\ after.pc = "done")
             => IF WithEmail(rec) = {}
                THEN after.resp = SkippedResp("No company emails found")
                ELSE after.resp = ErrorResp(500,
                         "Could not derive product_id from product GID")
        /\ after.resp.sent # -1
             => after.resp.sent = Len(after.payload.subscribers)

\* C7: the dispatch payload's subscribers are exactly the emails of the
\* listed companies whose lookup returned a company with an email; a lookup
\* that throws, returns no company or yields no email is left out and
\* produces no error response; the response's sent value is the number of
\* emails in the payload.
C7_PartialRecipients == [][\A r \in Req : PartialRecipientsStep(r)]_vars

\* two companies looked up, one email dispatched and reported
C7_Witness ==
    \E r \in Req :
      /\ Restored(r) /\ req[r].pc = "done" /\ req[r].lookups = 2
      /\ req[r].resp = SentResp(1)
      /\ Len(req[r].payload.subscribers) = 1

\* C8: a stock-restored invocation posts to the dispatch endpoint at most
\* once, and exactly once when it has built a payload; its variant read,
\* each company lookup, the dispatch and the clearing write are each issued
\* once, and a failure of any of them is never followed by a second attempt.
C8_SingleAttempts ==
    \A r \in Req :
      Restored(r)
      => /\ req[r].loads <= 1 /\ req[r].dispatches <= 1 /\ req[r].writes <= 1
         /\ req[r].pc = "loadVariant" => NoCalls(req[r])
         /\ req[r].pc = "lookups"
              => req[r].lookups =
                   Cardinality({i \in 1..Len(req[r].got) :
                                  req[r].got[i] # "pending"})
         /\ req[r].pc \in {"dispatch", "clear"}
              => req[r].lookups = Len(req[r].companies)
         /\ req[r].pc = "dispatch" => req[r].dispatches = 0
         /\ (req[r].payload # NoPayload /\ req[r].pc # "dispatch")
              => req[r].dispatches = 1
         /\ req[r].payload = NoPayload => req[r].dispatches = 0
         /\ req[r].dispatched \in {"transport", "non2xx"}
              => req[r].pc = "done"
         /\ req[r].written # "none" => req[r].pc = "done"

\* a dispatch that failed in transport, after one read and two lookups
C8_Witness ==
    \E r \in Req :
      /\ Restored(r) /\ req[r].pc = "done"
      /\ req[r].dispatched = "transport" /\ req[r].dispatches = 1
      /\ req[r].loads = 1 /\ req[r].lookups = 2 /\ req[r].writes = 0

\* C9: when the dispatch succeeded and the clearing write throws or returns
\* userErrors, the invocation still answers 200 with ok:true and sent equal
\* to the number of recipients, and the stored list is what it was before
\* (no other request having written it meanwhile).
C9_ClearFailureStillSent ==
    \A r \in Req :
      (/\ Restored(r) /\ req[r].dispatched = "ok"
       /\ req[r].written \in {"threw", "userErrors"})
      => /\ req[r].pc = "done"
         /\ req[r].resp = SentResp(Len(req[r].payload.subscribers))
         /\ req[r].resp.status = 200 /\ req[r].resp.ok = "true"
         /\ ~req[r].foreign => store[Target(r)] = req[r].snap

\* a clearing write answered with userErrors: 200, and the list still stored
C9_Witness ==
    \E r \in Req :
      /\ Restored(r) /\ req[r].dispatched = "ok"
      /\ req[r].written = "userErrors" /\ ~req[r].foreign
      /\ req[r].resp.status = 200 /\ req[r].resp.sent >= 1
      /\ StoredList(Target(r)) # <<>>

\* C10: in every reachable state, however subscribe and stock-restored
\* requests interleave from a duplicate-free list, no variant's stored list
\* holds a company ID more than once.
C10_NoDuplicates == \A v \in Variants : NoDuplicates(StoredList(v))

\* a subscribe wrote after another request's write overtook it, and the list
\* holds two companies
C10_Witness ==
    \E r \in Req :
      /\ req[r].kind = "subscribe" /\ req[r].pc = "done"
      /\ req[r].written = "applied" /\ req[r].foreign
      /\ Len(StoredList(Target(r))) = 2

\* the company IDs (strings) of a stored value
CompanyIds(value) == Elements(ParseCompanies(value))
\* slot r's subscribe handler takes its write step
SubscribeWrites(r) ==
    /\ req[r].kind = "subscribe" /\ req[r].pc = "write"
    /\ req'[r].pc = "done"
\* slot r's stock-restored handler takes its clear step after a dispatch
\* that succeeded
ClearsAfterDispatch(r) ==
    /\ Restored(r) /\ req[r].pc = "clear" /\ req[r].dispatched = "ok"
    /\ req'[r].pc = "done"

\* C11: no subscribe request removes a company from a variant's stored
\* list: every company stored just before a subscribe's write is stored
\* after it, and a stored list goes from non-empty to empty only through
\* the clear step of a notification whose dispatch succeeded.
C11_NoRemoval ==
    [][\A v \in Variants :
         /\ (\E r \in Req : SubscribeWrites(r))
              => CompanyIds(store[v]) \subseteq CompanyIds(store'[v])
         /\ (CompanyIds(store[v]) # {} /\ CompanyIds(store'[v]) = {})
              => \E r \in Req : ClearsAfterDispatch(r) /\ Target(r) = v]_vars

\* C12: every site that builds a global ID passes a fully-qualified gid://
\* input through unchanged and prefixes a bare ID once: the owner ID a
\* subscribe request reads and writes is its input variant ID when that
\* already is a GID, else the prefix followed by the input.
C12_NormalizeIdempotent ==
    \A r \in Req :
      (req[r].kind = "subscribe" /\ req[r].ownerId # EmptyStr)
      => req[r].ownerId =
           IF StartsWithGid(req[r].input.variantId)
           THEN req[r].input.variantId
           ELSE <<VariantPrefix>> \o req[r].input.variantId

\* a value read from a resolved variant that lists no company: no list at
\* all, or an array without a string in it
ListsNoCompany(value) ==
    /\ value # UnreadValue
    /\ \/ HoldsNoList(value)
       \/ \A i \in 1..Len(JSONParse(value.text).arr) :
            JSONParse(value.text).arr[i].t # "string"

\* C13: when the variant resolves and its subscriber list is empty, the
\* stock-restored invocation returns 200 with ok:true, skipped:true and the
\* reason "No subscribed companies", after the one variant read and without
\* any company lookup, dispatch or write.
C13_EmptyListSkipped ==
    \A r \in Req :
      (Restored(r) /\ ListsNoCompany(req[r].mfValue))
      => /\ req[r].pc = "done"
         /\ req[r].resp = SkippedResp("No subscribed companies")
         /\ req[r].resp.status = 200 /\ req[r].resp.ok = "true"
         /\ req[r].loads = 1 /\ req[r].lookups = 0
         /\ req[r].dispatches = 0 /\ req[r].writes = 0
         /\ ~req[r].foreign => store[Target(r)] = req[r].snap

\* an invocation that read the empty array
C13_Witness ==
    \E r \in Req :
      /\ Restored(r) /\ req[r].pc = "done"
      /\ req[r].mfValue = ListValue(<<>>)
      /\ req[r].resp = SkippedResp("No subscribed companies")
      /\ req[r].loads = 1

\* what the step that ends the lookup batch does when no lookup of the
\* batch returned an email
NoEmailStep(r) ==
    (/\ Restored(r) /\ req[r].pc = "lookups" /\ req'[r].pc # "lookups"
     /\ WithEmail(req[r]) = {})
    => /\ req'[r].pc = "done"
       /\ req'[r].resp = SkippedResp("No company emails found")
       /\ req'[r].resp.status = 200 /\ req'[r].resp.ok = "true"
       /\ req'[r].dispatches = 0 /\ req'[r].writes = 0
       /\ req'[r].payload = NoPayload
       /\ store' = store

\* C14: when every company lookup of an invocation throws, finds no company
\* or yields no email, the invocation returns 200 with ok:true, skipped:true
\* and the reason "No company emails found", performs no dispatch and no
\* write, and leaves the stored list as it is.
C14_NoEmailsSkipped == [][\A r \in Req : NoEmailStep(r)]_vars

\* two lookups, none with an email, answered as skipped
C14_Witness ==
    \E r \in Req :
      /\ Restored(r) /\ req[r].pc = "done" /\ req[r].lookups = 2
      /\ req[r].resp = SkippedResp("No company emails found")
      /\ req[r].dispatches = 0
      /\ StoredList(Target(r)) # <<>>

\* the trailing segment is a run of digits
IsInteger(chars) ==
    chars # <<>> /\ \A i \in 1..Len(chars) : chars[i] \in Digits
TrailingSegment(productGid) ==
    IF productGid = <<>> THEN <<>> ELSE Tail(productGid)
FailedAtProductId(rec) ==
    /\ rec.pc = "done"
    /\ rec.resp = ErrorResp(500, "Could not derive product_id from product GID")
    /\ rec.dispatches = 0 /\ rec.writes = 0
ReadProductGid(r) == Restored(r) /\ req[r].productGid # NoProductGid

\* C15: when the trailing segment of the product's global ID
\* does not parse as an integer the invocation responds 500, sends no
\* dispatch and does not clear the list; when it parses, the invocation is
\* not failed at this step.
C15_ProductIdParse ==
    \A r \in Req :
      ReadProductGid(r)
      => IF IsInteger(TrailingSegment(req[r].productGid))
         THEN ~FailedAtProductId(req[r])
         ELSE FailedAtProductId(req[r])

\* a POST to /stock-restored whose secret header the handler has read
RestoredPost(r) ==
    Restored(r) /\ req[r].input.method = "POST" /\ req[r].input.secret # Unread
\* the header differs from the configured secret, or none is configured
BadSecret(rec) ==
    env.flowSecret = EmptyStr \/ rec.input.secret # env.flowSecret
\* nothing of the body was read
BodyUnread(rec) ==
    /\ rec.input.shopId = Unread /\ rec.input.variantId = Unread
    /\ rec.input.inventoryQuantity = NotANumber
    /\ rec.input.previousInventoryQuantity = NotANumber

\* C16: a POST to /stock-restored whose X-Flow-Secret header differs from
\* the configured secret, and any POST when no secret is configured, is
\* answered 401 before the body is read, with no provider call, no dispatch
\* and no write.
C16_UnauthorizedFirst ==
    \A r \in Req :
      RestoredPost(r) /\ BadSecret(req[r])
      => /\ req[r].pc = "done"
         /\ req[r].resp = ErrorResp(401, "Unauthorized")
         /\ BodyUnread(req[r])
         /\ NoCalls(req[r])
         /\ req[r].dispatched = "none" /\ req[r].written = "none"
\* no secret is configured, the request carried none either, and it was
\* answered 401
C16_Witness ==
    \E r \in Req :
      /\ RestoredPost(r) /\ env.flowSecret = EmptyStr
      /\ req[r].input.secret = env.flowSecret
      /\ req[r].resp.status = 401

\* r is a POST to /subscribe (origin route) that this step received
SubscribePostArrives(r) ==
    /\ req'[r] # req[r] /\ req[r].pc \in {"idle", "done"}
    /\ req'[r].kind = "subscribe" /\ req'[r].route = "origin"
    /\ req'[r].input.method = "POST"
MissingFields(in) == in.variantId = EmptyStr \/ in.companyId = EmptyStr
\* the Origin header is absent or not a key of the credential map, or the
\* credentials it names are not set
NoCredentialBinding(in) ==
    in.origin = NoOrigin \/ in.origin = UnmappedOrigin \/ ~env.shopVars
\* the step answered with this error and touched neither provider nor lists
RejectedAtOnce(r, status) ==
    /\ req'[r].pc = "done"
    /\ req'[r].resp.status = status /\ req'[r].resp.ok = "false"
    /\ NoCalls(req'[r]) /\ req'[r].written = "none"
    /\ store' = store

C18_ErrorBodies ==
    \A r \in Req :
      req[r].pc = "done" /\ req[r].resp.status >= 400
      => req[r].resp.ok = "false" /\ req[r].resp.msg # "none"

\* a step of a GET /list request in slot r
ListStep(r) ==
    /\ req'[r] # req[r]
    /\ req'[r].kind = "list" /\ req'[r].input.method = "GET"
\* the answer is an empty array with this status
EmptyArray(rec, status) ==
    rec.pc = "done" /\ rec.resp = ArrayResp(status) /\ rec.rows = <<>>
\* every company of every row is a string
RowsOfStrings(rows) ==
    \A i \in 1..Len(rows) :
      \A j \in 1..Len(rows[i].companies) :
        rows[i].companies[j].t = "string"

\* C19: GET /list answers a request without productId with 200 and an
\* empty array, without a provider call; answers an exception during
\* authentication, a provider call or the handling of the parsed ids with
\* 500 and an empty array (so an answer that names companies names strings
\* only); and no step of it changes a stored list.
C19_ListAnswers ==
    [][\A r \in Req :
         ListStep(r)
         => /\ store' = store
            /\ req'[r].writes = 0 /\ req'[r].written = "none"
            /\ req'[r].input.productId = EmptyStr
               => EmptyArray(req'[r], 200) /\ NoCalls(req'[r])
            /\ req'[r].input.auth = "throws" \/ req'[r].threw # "none"
               => EmptyArray(req'[r], 500)
            /\ req'[r].pc = "done" /\ req'[r].resp.status = 200
               /\ AllCompanyIds(req'[r].rows) # <<>>
               => RowsOfStrings(req'[r].rows)]_vars
\* a stored list holding a number made id.startsWith throw after the
\* product query, and the answer was 500 with an empty array
C19_Witness ==
    \E r \in Req :
      /\ req[r].kind = "list" /\ req[r].threw = "type"
      /\ req[r].loads = 1 /\ req[r].lookups = 0
      /\ EmptyArray(req[r], 500)
      /\ \E v \in Variants : ~RowsOfStrings(<<[companies |->
                                    ListCompanyIds(store[v])]>>)

\* q finished a subscribe for r's variant and another company; the
\* provider applied its write and the handler answered 200
SucceededBeside(q, r) ==
    /\ q # r /\ req[q].kind = "subscribe" /\ req[q].pc = "done"
    /\ req[q].resp = OkResp /\ req[q].written = "applied"
    /\ Target(q) = Target(r) /\ Target(r) # NoVariant
    /\ req[q].companyId # req[r].companyId
\* the value a subscribe read: held while it runs, on record afterwards
ReadBy(r) == IF req[r].pc = "done" THEN req[r].prior ELSE req[r].mfValue
\* both read the same prior list from the provider, without either company
SamePriorList(q, r) ==
    /\ ReadBy(r) # UnreadValue /\ ReadBy(r) = ReadBy(q)
    /\ JsString(req[q].companyId) \notin CompanyIds(ReadBy(r))
    /\ JsString(req[r].companyId) \notin CompanyIds(ReadBy(r))

\* C20: when two subscribe requests for one variant and different companies
\* read the same prior list and the first has written and answered 200, the
\* second one's applied write also answers 200 and leaves a stored list
\* that holds its own company and lacks the first one's.
C20_LostUpdate ==
    [][\A r, q \in Req :
         /\ SubscribeWrites(r) /\ req'[r].written = "applied"
         /\ SucceededBeside(q, r) /\ SamePriorList(q, r)
         => /\ req'[r].resp = OkResp /\ req'[q].resp = OkResp
            /\ JsString(req[r].companyId)
                 \in CompanyIds(store'[Target(r)])
            /\ JsString(req[q].companyId)
                 \notin CompanyIds(store'[Target(r)])]_vars
\* both requests answered 200 after applied writes based on the same prior
\* list, and the stored list holds only one of their two companies
C20_Witness ==
    \E r, q \in Req :
      /\ req[r].kind = "subscribe" /\ req[r].pc = "done"
      /\ req[r].resp = OkResp /\ req[r].written = "applied"
      /\ SucceededBeside(q, r) /\ SamePriorList(q, r)
      /\ JsString(req[r].companyId) \in CompanyIds(store[Target(r)])
      /\ JsString(req[q].companyId) \notin CompanyIds(store[Target(r)])

\* the variant a request names, bare or as a GID
NamedVariant(rec) ==
    LET id == rec.input.variantId
    IN  IF id = Unread \/ id = EmptyStr THEN NoVariant
        ELSE IF StartsWithGid(id) THEN id[Len(id)] ELSE id[1]
\* slot r's request takes the step that sends its write
WriteStep(r) ==
    /\ req[r].kind \in {"subscribe", "restored"}
    /\ req[r].pc \in {"write", "clear"} /\ req'[r].pc = "done"

\* C21: whenever a step changes the stored list of a variant, it is the
\* write step of a subscribe or stock-restored request that names that
\* variant; so a request for v leaves the lists of all other variants as
\* they are, however the requests interleave.
C21_FrameEffect ==
    [][\A v \in Variants :
         store'[v] # store[v]
         => \E r \in Req : WriteStep(r) /\ NamedVariant(req[r]) = v]_vars
\* a subscribe for v1 added a company to v1's list while a request for v2
\* was in flight, and v2's list is as it was
C21_Witness ==
    \E r, q \in Req :
      /\ req[r].kind = "subscribe" /\ req[r].pc = "done"
      /\ req[r].written = "applied" /\ NamedVariant(req[r]) = "v1"
      /\ Len(StoredList("v1")) = 2
      /\ Active(q) /\ req[q].loads > 0 /\ NamedVariant(req[q]) = "v2"
      /\ store["v2"] = ListValue(<<JsString(<<"c2">>)>>)

\* what one step does to the lookup batch of the invocation in slot r
LookupBatchStep(r) ==
    LET rec == req[r]
        after == req'[r]
        n == Len(rec.companies)
    IN  /\ rec.pc = "lookups" => rec.dispatches = 0 /\ rec.dispatched = "none"
        /\ after.dispatches > rec.dispatches => rec.pc = "dispatch"
        /\ (rec.pc = "lookups" /\ after.pc = "lookups")
             => /\ after.resp = NoResp
                /\ \A i \in 1..n :
                     rec.got[i] # "pending" => after.got[i] = rec.got[i]
                /\ \A i \in 1..Len(rec.recipients) :
                     after.recipients[i] = rec.recipients[i]
        /\ (rec.pc = "lookups" /\ after.pc = "dispatch")
             => /\ \A i \in 1..n : rec.got[i] # "pending"
                /\ rec.lookups = n
                /\ Elements(after.payload.subscribers)
                     = {EmailOf(rec.companies[i].v) :
                          i \in {j \in 1..n : rec.got[j] = "email"}}

\* C22: the dispatch of a stock-restored invocation is issued only after
\* every company lookup of the invocation has completed or failed; a lookup
\* that fails leaves the others and their results alone; and the set of
\* recipient emails is the set of emails of the lookups that returned one,
\* whatever the order in which the lookups completed.
C22_LookupBatch ==
    [][\A r \in Req : Restored(r) => LookupBatchStep(r)]_vars
\* two lookups were made, only the second company's email was dispatched
C22_Witness ==
    \E r \in Req :
      /\ Restored(r) /\ req[r].dispatched = "ok" /\ req[r].lookups = 2
      /\ req[r].payload.subscribers = <<EmailOf(<<"c2">>)>>

\* the invocation ended with this error and made no call
FailedEarly(rec, status, msg) ==
    /\ rec.pc = "done" /\ rec.resp.status = status /\ rec.resp.msg = msg
    /\ ~rec.resp.skipped /\ NoCalls(rec)
\* what the checks of POST /stock-restored, taken in the order method,
\* secret, JSON body, shopId, variantId, quantities, threshold, credentials,
\* variant, make of the request in rec
FirstFailingCheck(rec) ==
    LET in == rec.input
    IN  IF in.method # "POST"
        THEN FailedEarly(rec, 405, "Method not allowed")
        ELSE IF BadSecret(rec) THEN FailedEarly(rec, 401, "Unauthorized")
        ELSE IF ~in.bodyIsJson THEN FailedEarly(rec, 400, "Invalid JSON")
        ELSE IF in.shopId = EmptyStr
             THEN FailedEarly(rec, 400, "Missing shopId")
        ELSE IF in.variantId = EmptyStr
             THEN FailedEarly(rec, 400, "Missing variantId")
        ELSE IF in.inventoryQuantity.t # "number"
                \/ in.previousInventoryQuantity.t # "number"
             THEN FailedEarly(rec, 400, "quantities must be numbers")
        ELSE IF ~Crossing(rec) THEN SkippedAtThreshold(rec)
        ELSE IF ~HasCredentials(rec)
             THEN FailedEarly(rec, 500, "Unknown or misconfigured shopId")
        ELSE /\ ReachedVariantLookup(rec)
             /\ rec.resp.status \in {404, 500} /\ rec.lookups = 0
                => /\ rec.loads = 1 /\ rec.dispatches = 0 /\ rec.writes = 0
                   /\ rec.resp.status = 404
                        <=> rec.resp.msg = "Variant not found"

\* C23: POST /stock-restored runs its checks in a fixed order and the first
\* that fails decides the response: method (405), secret (401), JSON body
\* (400), shopId (400), variantId (400), numeric quantities (400),
\* threshold (200 skipped), shop credentials (500), variant load (500),
\* variant existence (404); a non-crossing event for an unknown shop is
\* answered 200 skipped.
C23_CheckOrder ==
    \A r \in Req : Restored(r) => FirstFailingCheck(req[r])
\* a non-crossing event for a shop without credentials, skipped with 200
C23_Witness ==
    \E r \in Req :
      /\ CarriesEvent(req[r]) /\ ~Crossing(req[r]) /\ ~HasCredentials(req[r])
      /\ SkippedAtThreshold(req[r])

\* the invocation in rec is the re-sent event of one that ended 502
ReSent(rec) == rec.kind = "restored" /\ rec.retryOf # NoPayload
\* the emails of the lookups of rec that returned one
EmailsFound(rec) ==
    {EmailOf(rec.companies[i].v) :
       i \in {j \in 1..Len(rec.companies) : rec.got[j] = "email"}}

\* C24 (as stated): after a stock-restored invocation that ended 502
\* because of a dispatch failure, the same event sent again with no other
\* request in between reaches the dispatch step with the same recipient
\* set.
C24_RetryDispatches ==
    \A r \in Req :
      ReSent(req[r]) /\ req[r].pc = "done"
      => /\ req[r].dispatches = 1
         /\ Elements(req[r].payload.subscribers)
              = Elements(req[r].retryOf.subscribers)

\* what one step does to the re-sent event in slot r
RetryStep(r) ==
    LET rec == req[r]
        after == req'[r]
        failed == after.retryOf
    IN  /\ after.resp # SkippedResp("Inventory threshold not crossed")
        /\ after.resp # SkippedResp("No subscribed companies")
        /\ after.pc = "lookups"
             => Elements(failed.subscribers)
                  \subseteq {EmailOf(c.v) : c \in Elements(after.companies)}
        /\ ( /\ rec.pc = "lookups" /\ after.pc # "lookups"
             /\ EmailsFound(rec) = Elements(failed.subscribers)
             /\ ProductNumericId(after.productGid) = failed.product_id )
             => /\ after.pc = "dispatch"
                /\ after.payload.product_id = failed.product_id
                /\ Elements(after.payload.subscribers)
                     = Elements(failed.subscribers)

\* C24 (amended): after a stock-restored invocation that ended 502 because
\* of a dispatch failure, the same event sent again with no other request
\* in between is never skipped; when its variant load succeeds it looks up
\* every company of the failed payload again, and when the provider answers
\* the lookups and the product as before it reaches the dispatch step with
\* the same recipient set.
C24_RetryReadsSameList ==
    [][\A r \in Req : ReSent(req'[r]) => RetryStep(r)]_vars
\* the re-sent event was delivered with the payload that had failed
C24_Witness ==
    \E r \in Req :
      /\ ReSent(req[r]) /\ req[r].dispatched = "ok"
      /\ req[r].payload = req[r].retryOf
      /\ Len(req[r].payload.subscribers) >= 1

\* the company IDs that a step takes out of v's stored list
RemovedFrom(v) == CompanyIds(store[v]) \ CompanyIds(store'[v])

\* C25: every company ID that the clear step of a stock-restored invocation
\* removes from the variant's list had its email in that invocation's
\* dispatch payload: no company that subscribed between the read and the
\* clear, and none dropped for lack of an email, is removed unnotified.
C25_ClearedWereNotified ==
    [][\A r \in Req :
         ClearsAfterDispatch(r)
         => \A c \in RemovedFrom(Target(r)) :
              EmailOf(c.v) \in Elements(req[r].payload.subscribers)]_vars

\* the invocation in slot r had its dispatch accepted
Delivered(r) == Restored(r) /\ req[r].dispatched = "ok"
\* the only requests sent so far are the two stock-restored invocations in
\* the slots: every company in their lists subscribed once, before them
OnlyInvocations(r, q) ==
    r # q /\ Restored(r) /\ Restored(q) /\ started = 2

\* C26: a company that subscribed once to a variant is included in at most
\* one successful dispatch for that variant: two stock-restored invocations
\* for the variant with no subscribe beside them, however they interleave
\* and whatever their clearing writes return, deliver no email twice.
C26_DispatchedOnce ==
    \A r, q \in Req :
      /\ OnlyInvocations(r, q) /\ Target(r) = Target(q)
      /\ Delivered(r) /\ Delivered(q)
      => Elements(req[r].payload.subscribers)
           \cap Elements(req[q].payload.subscribers) = {}

\* C27: whenever a subscribe request answers 200 with ok:true, its write
\* has put the company ID into the variant's stored list, also when the
\* provider answered the mutation with HTTP 200 and top-level errors, and
\* when the read before it failed.
C27_SuccessMeansStored ==
    [][\A r \in Req :
         SubscribeWrites(r) /\ req'[r].resp = OkResp
         => /\ Target(r) # NoVariant
            /\ JsString(req[r].companyId)
                 \in CompanyIds(store'[Target(r)])]_vars

\* C28: origin-mapped subscribe, app-proxy subscribe, stock-restored, the
\* list endpoint and the admin index loader derive the same subscriber list
\* from the same stored value, also when its array holds non-string or
\* empty elements.
C28_ParseSitesAgree ==
    \A v \in Variants :
      /\ ParseCompanies(store[v]) = ParseCompaniesProxy(store[v])
      /\ ParseCompanies(store[v]) = ListCompanyIds(store[v])
      /\ ParseCompanies(store[v]) = IndexCompanies(store[v])

\* what one step does to the pagination loop of the index loader in slot r
PaginationStep(r) ==
    LET rec == req[r]
        after == req'[r]
    IN  /\ after.loads <= SafetyLimit
        /\ after.loads > rec.loads
             => rec.hasNextPage /\ rec.loads < SafetyLimit
        /\ (after.loads > rec.loads /\ after.pc = "page")
             => (~after.got[1].hasNextPage \/ after.got[1].edges = 0
                   => ~after.hasNextPage)
        /\ (rec.pc = "page" /\ ~rec.hasNextPage)
             => after.loads = rec.loads /\ after.pc = "done"
        /\ (rec.pc = "page" /\ rec.loads = SafetyLimit)
             => after.loads = rec.loads /\ after.pc = "done"

\* C30: the product pagination loop of the admin index loader makes at most
\* 50 provider requests for every sequence of provider responses, also when
\* every page reports hasNextPage true, and it requests no further page
\* once a page reports no next page or has no edges.
C30_PaginationBounded ==
    [][\A r \in Req : req'[r].kind = "index" => PaginationStep(r)]_vars
\* fifty pages were requested, each with edges and a next page, and the
\* loader went on to its answer
C30_Witness ==
    \E r \in Req :
      /\ req[r].kind = "index" /\ req[r].pc = "done"
      /\ req[r].loads = SafetyLimit /\ req[r].allProductEdges = SafetyLimit
      /\ req[r].hasNextPage /\ req[r].resp.status = 200

\* the invocation in slot r has returned, with a response
Returned(r) == req[r].pc = "done" /\ req[r].resp # NoResp

\* C29: every POST /stock-restored invocation returns exactly one response
\* provided each outbound call eventually returns or fails: no invocation
\* holds a response before its return, and every invocation in flight,
\* whatever its lookups do, eventually returns.
C29_RestoredReturns ==
    /\ [](\A r \in Req :
            Restored(r) => (req[r].pc = "done" <=> req[r].resp # NoResp))
    /\ \A r \in Req : (Restored(r) /\ Active(r)) ~> Returned(r)
\* an invocation returned 200 sent after two lookups of which only the
\* second produced a recipient
C29_Witness ==
    \E r \in Req :
      /\ Restored(r) /\ Returned(r) /\ req[r].lookups = 2
      /\ req[r].resp = SentResp(1)
      /\ req[r].payload.subscribers = <<EmailOf(<<"c2">>)>>
      /\ req[r].input.method = "POST"


=============================================================================
